---- MODULE Spec2Model ----
(***************************************************************************)
(* The trigger relay of issue-dashboard: the Netlify function              *)
(* netlify/functions/trigger-update.js, which forwards a POST to GitHub's  *)
(* workflow_dispatch endpoint and relays the outcome.                      *)
(*                                                                         *)
(* One invocation of exports.handler runs synchronously up to its first    *)
(* await (the fetch), then up to its second (response.text()), then        *)
(* returns.  The model follows invocations one after another and keeps,    *)
(* beside the handler's own values, a record of one earlier invocation so  *)
(* that invocations can be compared with each other.                       *)
(***************************************************************************)
EXTENDS Integers, Sequences, FiniteSets, TLC

(***************************************************************************)
(* Bounds of the model.                                                    *)
(***************************************************************************)
\* the number of invocations followed in one behaviour
MaxInvocations == 3

(***************************************************************************)
(* State.                                                                  *)
(***************************************************************************)
VARIABLES
    pc,         \* where the invocation is: "idle", "awaitFetch", "awaitText", "done"
    event,      \* the event the handler was called with
    env,        \* process.env, set when the function is deployed
    outbound,   \* the requests this invocation has sent to the dispatch endpoint
    response,   \* the upstream response fetch() resolved with (none or one)
    errorText,  \* the text response.text() resolved with (none or one)
    error,      \* the error the catch block caught (none or one)
    now,        \* the clock reading new Date() took (none or one)
    result,     \* what the handler returned (none or one)
    invocation, \* the number of this invocation
    earlier     \* a finished earlier invocation, kept to compare with (none or one)

vars == <<pc, event, env, outbound, response, errorText, error, now, result,
          invocation, earlier>>

(***************************************************************************)
(* JavaScript values: undefined, strings and booleans.                     *)
(***************************************************************************)
Undefined == [t |-> "undefined"]
Str(s) == [t |-> "string", v |-> s]
Bool(b) == [t |-> "boolean", v |-> b]

\* ToBoolean, as the operators || and ! apply it
Truthy(x) ==
    CASE x.t = "undefined" -> FALSE
      [] x.t = "string" -> x.v # ""
      [] x.t = "boolean" -> x.v

\* a || b
Or(a, b) == IF Truthy(a) THEN a ELSE b

\* JSON.stringify of an object, read back by the caller: the members whose
\* value is undefined are left out, the others are kept as they are.
JSONstringify(obj) ==
    LET kept == {k \in DOMAIN obj : obj[k].t # "undefined"}
    IN  [k \in kept |-> obj[k]]

(***************************************************************************)
(* Date.prototype.toISOString: a time value as YYYY-MM-DDTHH:mm:ss.sssZ.   *)
(* A time value is kept as whole days since 1970-01-01 and milliseconds    *)
(* within the day (the product is beyond TLC's 32-bit integers).           *)
(***************************************************************************)
DigitChars == <<"0", "1", "2", "3", "4", "5", "6", "7", "8", "9">>

RECURSIVE Pad(_, _)
\* the decimal digits of n, zero-padded to width w
Pad(n, w) == IF w = 0 THEN <<>> ELSE Pad(n \div 10, w - 1) \o <<DigitChars[(n % 10) + 1]>>

\* year, month and day of a day number (the proleptic Gregorian calendar)
CivilFromDays(day) ==
    LET z == day + 719468
        era == z \div 146097
        doe == z - era * 146097
        yoe == (doe - doe \div 1460 + doe \div 36524 - doe \div 146096) \div 365
        doy == doe - (365 * yoe + yoe \div 4 - yoe \div 100)
        mp == (5 * doy + 2) \div 153
        d == doy - (153 * mp + 2) \div 5 + 1
        m == IF mp < 10 THEN mp + 3 ELSE mp - 9
        y == yoe + era * 400 + (IF m <= 2 THEN 1 ELSE 0)
    IN  [year |-> y, month |-> m, date |-> d]

\* as toISOString, with the month counted from zero
toISOStringZeroBasedMonth(time) ==
    LET c == CivilFromDays(time.day)
        h == time.msOfDay \div 3600000
        mi == (time.msOfDay \div 60000) % 60
        s == (time.msOfDay \div 1000) % 60
        ms == time.msOfDay % 1000
    IN  Pad(c.year, 4) \o <<"-">> \o Pad(c.month - 1, 2) \o <<"-">> \o Pad(c.date, 2)
          \o <<"T">> \o Pad(h, 2) \o <<":">> \o Pad(mi, 2) \o <<":">> \o Pad(s, 2)
          \o <<".">> \o Pad(ms, 3) \o <<"Z">>

toISOString(time) ==
    LET c == CivilFromDays(time.day)
        h == time.msOfDay \div 3600000
        mi == (time.msOfDay \div 60000) % 60
        s == (time.msOfDay \div 1000) % 60
        ms == time.msOfDay % 1000
    IN  Pad(c.year, 4) \o <<"-">> \o Pad(c.month, 2) \o <<"-">> \o Pad(c.date, 2)
          \o <<"T">> \o Pad(h, 2) \o <<":">> \o Pad(mi, 2) \o <<":">> \o Pad(s, 2)
          \o <<".">> \o Pad(ms, 3) \o <<"Z">>

(***************************************************************************)
(* The inputs of an invocation.                                            *)
(***************************************************************************)
Methods == {"POST", "GET", "OPTIONS"}

\* process.env: each variable is unset, empty, or holds a token of its own
EnvValues(name) == {Undefined, Str(""), Str("tok_" \o name)}
Envs == [GITHUB_TOKEN : EnvValues("GITHUB_TOKEN"),
         GH_TOKEN : EnvValues("GH_TOKEN"),
         GH_PAT : EnvValues("GH_PAT")]

\* what GitHub may answer: the status, and the text of the response body
UpstreamStatuses == {200, 202, 204, 302, 422}
UpstreamTexts == {"", "Validation Failed"}
\* the message of an error fetch() or response.text() rejects with
ErrorMessages == {"fetch failed", "terminated"}
\* readings of the clock at new Date()
Clock == {[day |-> 0, msOfDay |-> 0],
          [day |-> 11016, msOfDay |-> 86399999],
          [day |-> 20759, msOfDay |-> 80645007]}

(***************************************************************************)
(* The handler's constants and the values it builds.                       *)
(***************************************************************************)
REPO_OWNER == "Tina0529"
REPO_NAME == "issue-dashboard"
WORKFLOW_ID == "update.yml"

JsonCorsHeaders ==
    ("Content-Type" :> "application/json") @@ ("Access-Control-Allow-Origin" :> "*")

\* as IsPost, with GET let through as well
IsPostOrGet(ev) == ev.httpMethod \in {"POST", "GET"}

\* as IsPost, with a flag kept across invocations that lets only the first
\* invocation of the process through
IsPostFirstOnly(ev) == ev.httpMethod = "POST" /\ invocation = 0

\* event.httpMethod !== 'POST' is false
IsPost(ev) == ev.httpMethod = "POST"

\* as ResolveToken, with ?? in the place of ||
Coalesce(a, b) == IF a.t = "undefined" THEN b ELSE a
ResolveTokenNullish(e) == Coalesce(Coalesce(e.GITHUB_TOKEN, e.GH_TOKEN), e.GH_PAT)

\* as ResolveToken, with GH_PAT left out
ResolveTokenWithoutPat(e) == Or(e.GITHUB_TOKEN, e.GH_TOKEN)

\* process.env.GITHUB_TOKEN || process.env.GH_TOKEN || process.env.GH_PAT
ResolveToken(e) == Or(Or(e.GITHUB_TOKEN, e.GH_TOKEN), e.GH_PAT)

\* the request fetch() is called with
DispatchRequest(token) ==
    [url |-> "https://api.github.com/repos/" \o REPO_OWNER \o "/" \o REPO_NAME
               \o "/actions/workflows/" \o WORKFLOW_ID \o "/dispatches",
     method |-> "POST",
     headers |-> ("Authorization" :> "Bearer " \o token.v)
                   @@ ("Accept" :> "application/vnd.github.v3+json")
                   @@ ("Content-Type" :> "application/json"),
     body |-> JSONstringify([ref |-> Str("main")])]

\* response.status === 204
IsNoContent(status) == status = 204

MethodNotAllowedResult ==
    [statusCode |-> 405,
     body |-> JSONstringify([error |-> Str("Method not allowed")])]

\* as TokenMissingResult, without the hint
TokenMissingResultNoHint ==
    [statusCode |-> 500,
     headers |-> JsonCorsHeaders,
     body |-> JSONstringify([error |-> Str("GitHub token not configured")])]

TokenMissingResult ==
    [statusCode |-> 500,
     headers |-> JsonCorsHeaders,
     body |-> JSONstringify(
        [error |-> Str("GitHub token not configured"),
         hint |-> Str("Please add GITHUB_TOKEN or GH_TOKEN in Netlify Environment Variables with Functions scope")])]

\* as TriggeredResult, with the upstream's 204 as the status code
TriggeredResultAs204(time) ==
    [statusCode |-> 204,
     headers |-> JsonCorsHeaders,
     body |-> JSONstringify(
        [success |-> Bool(TRUE),
         message |-> Str("Workflow triggered successfully"),
         timestamp |-> Str(toISOString(time))])]

TriggeredResult(time) ==
    [statusCode |-> 200,
     headers |-> JsonCorsHeaders,
     body |-> JSONstringify(
        [success |-> Bool(TRUE),
         message |-> Str("Workflow triggered successfully"),
         timestamp |-> Str(toISOString(time))])]

\* as UpstreamErrorResult, with every upstream error answered 502
UpstreamErrorResultAs502(status, text) ==
    [statusCode |-> 502,
     headers |-> JsonCorsHeaders,
     body |-> JSONstringify(
        [error |-> Str("Failed to trigger workflow"),
         details |-> Str(text)])]

UpstreamErrorResult(status, text) ==
    [statusCode |-> status,
     headers |-> JsonCorsHeaders,
     body |-> JSONstringify(
        [error |-> Str("Failed to trigger workflow"),
         details |-> Str(text)])]

\* as CaughtResult, reading a property the error does not have
CaughtResultNoMessage(err) ==
    [statusCode |-> 500,
     headers |-> JsonCorsHeaders,
     body |-> JSONstringify([error |-> Undefined])]

CaughtResult(err) ==
    [statusCode |-> 500,
     headers |-> JsonCorsHeaders,
     body |-> JSONstringify([error |-> err.message])]

(***************************************************************************)
(* The handler's steps.                                                    *)
(***************************************************************************)
\* the finished invocation as it is remembered
Finished ==
    [invocation |-> invocation, event |-> event,
     outbound |-> outbound, response |-> response, errorText |-> errorText,
     error |-> error, result |-> result]

Init ==
    /\ pc = "idle"
    /\ event = [httpMethod |-> "GET"]
    /\ env \in Envs
    /\ outbound = <<>>
    /\ response = <<>>
    /\ errorText = <<>>
    /\ error = <<>>
    /\ now = <<>>
    /\ result = <<>>
    /\ invocation = 0
    /\ earlier = <<>>

\* The platform calls the handler: the values of the previous invocation are
\* gone, and the finished invocation may be the one remembered from now on.
\* The environment is the one the function was deployed with.
Enter(ev) ==
    /\ pc \in {"idle", "done"}
    /\ invocation < MaxInvocations
    /\ invocation' = invocation + 1
    /\ event' = ev
    /\ UNCHANGED env
    /\ response' = <<>>
    /\ errorText' = <<>>
    /\ error' = <<>>
    /\ now' = <<>>
    /\ earlier' \in (IF pc = "done" THEN {earlier, <<Finished>>} ELSE {earlier})

\* lines 4-9: any method but POST is answered 405
MethodNotAllowed(ev) ==
    /\ Enter(ev)
    /\ ~IsPost(ev)
    /\ outbound' = <<>>
    /\ result' = <<MethodNotAllowedResult>>
    /\ pc' = "done"

\* lines 12-38: a POST with no token in the environment is answered 500
TokenMissing(ev) ==
    /\ Enter(ev)
    /\ IsPost(ev)
    /\ ~Truthy(ResolveToken(env))
    /\ outbound' = <<>>
    /\ result' = <<TokenMissingResult>>
    /\ pc' = "done"

\* lines 12-55: a POST with a token calls fetch() and awaits it
Dispatch(ev) ==
    /\ Enter(ev)
    /\ IsPost(ev)
    /\ Truthy(ResolveToken(env))
    /\ outbound' = <<DispatchRequest(ResolveToken(env))>>
    /\ result' = <<>>
    /\ pc' = "awaitFetch"

\* lines 57-71: fetch() resolved with 204
FetchNoContent(status, time) ==
    /\ pc = "awaitFetch"
    /\ IsNoContent(status)
    /\ response' = <<[status |-> status]>>
    /\ now' = <<time>>
    /\ result' = <<TriggeredResult(time)>>
    /\ pc' = "done"
    /\ UNCHANGED <<event, env, outbound, errorText, error, invocation, earlier>>

\* lines 57-73: fetch() resolved with another status; response.text() is awaited
FetchOtherStatus(status) ==
    /\ pc = "awaitFetch"
    /\ ~IsNoContent(status)
    /\ response' = <<[status |-> status]>>
    /\ pc' = "awaitText"
    /\ UNCHANGED <<event, env, outbound, errorText, error, now, result, invocation, earlier>>

\* lines 73-86: response.text() resolved
TextRead(text) ==
    /\ pc = "awaitText"
    /\ errorText' = <<text>>
    /\ result' = <<UpstreamErrorResult(response[1].status, text)>>
    /\ pc' = "done"
    /\ UNCHANGED <<event, env, outbound, response, error, now, invocation, earlier>>

\* lines 87-97: fetch() or response.text() rejected
Caught(msg) ==
    /\ pc \in {"awaitFetch", "awaitText"}
    /\ error' = <<[message |-> Str(msg)]>>
    /\ result' = <<CaughtResult([message |-> Str(msg)])>>
    /\ pc' = "done"
    /\ UNCHANGED <<event, env, outbound, response, errorText, now, invocation, earlier>>

Next ==
    \/ \E ev \in [httpMethod : Methods] : MethodNotAllowed(ev)
    \/ \E ev \in [httpMethod : Methods] : TokenMissing(ev)
    \/ \E ev \in [httpMethod : Methods] : Dispatch(ev)
    \/ \E status \in UpstreamStatuses, time \in Clock : FetchNoContent(status, time)
    \/ \E status \in UpstreamStatuses : FetchOtherStatus(status)
    \/ \E text \in UpstreamTexts : TextRead(text)
    \/ \E msg \in ErrorMessages : Caught(msg)

Spec == Init /\ [][Next]_vars

(***************************************************************************)
(* What the claims speak of.                                               *)
(***************************************************************************)
Returned == Len(result) = 1
Res == result[1]
Has(body, k) == k \in DOMAIN body
ReportsSuccess(r) == Has(r.body, "success") /\ r.body.success = Bool(TRUE)
CorsOpen(r) ==
    /\ Has(r, "headers")
    /\ Has(r.headers, "Access-Control-Allow-Origin")
    /\ r.headers["Access-Control-Allow-Origin"] = "*"

\* the accepted variables in their order, and those holding a non-empty value
CredentialOrder == <<"GITHUB_TOKEN", "GH_TOKEN", "GH_PAT">>
NonEmptyAt(e) ==
    {i \in 1..3 : e[CredentialOrder[i]].t = "string" /\ e[CredentialOrder[i]].v # ""}
CredentialConfigured(e) == NonEmptyAt(e) # {}
FirstNonEmpty(e) ==
    e[CredentialOrder[CHOOSE i \in NonEmptyAt(e) : \A j \in NonEmptyAt(e) : i <= j]].v

\* reading a date-time YYYY-MM-DDTHH:mm:ss.sssZ back
IsDigit(c) == \E d \in 1..10 : DigitChars[d] = c
DigitValue(c) == (CHOOSE d \in 1..10 : DigitChars[d] = c) - 1
RECURSIVE NumberAt(_, _, _)
NumberAt(s, i, w) ==
    IF w = 0 THEN 0 ELSE NumberAt(s, i, w - 1) * 10 + DigitValue(s[i + w - 1])
IsLeapYear(y) == (y % 4 = 0 /\ y % 100 # 0) \/ y % 400 = 0
DaysInMonth(y, m) ==
    IF m = 2 THEN (IF IsLeapYear(y) THEN 29 ELSE 28)
    ELSE IF m \in {4, 6, 9, 11} THEN 30 ELSE 31
DateTimeFields(s) ==
    [year |-> NumberAt(s, 1, 4), month |-> NumberAt(s, 6, 2), date |-> NumberAt(s, 9, 2),
     hour |-> NumberAt(s, 12, 2), minute |-> NumberAt(s, 15, 2),
     second |-> NumberAt(s, 18, 2), ms |-> NumberAt(s, 21, 3)]
IsDateTime(s) ==
    /\ Len(s) = 24
    /\ s[5] = "-" /\ s[8] = "-" /\ s[11] = "T" /\ s[14] = ":" /\ s[17] = ":"
    /\ s[20] = "." /\ s[24] = "Z"
    /\ \A i \in (1..23) \ {5, 8, 11, 14, 17, 20} : IsDigit(s[i])
    /\ LET f == DateTimeFields(s)
       IN  /\ f.month \in 1..12
           /\ f.date \in 1..DaysInMonth(f.year, f.month)
           /\ f.hour \in 0..23 /\ f.minute \in 0..59 /\ f.second \in 0..59
DaysFromCivil(y, m, d) ==
    LET yy == IF m <= 2 THEN y - 1 ELSE y
        era == yy \div 400
        yoe == yy - era * 400
        doy == (153 * (IF m > 2 THEN m - 3 ELSE m + 9) + 2) \div 5 + d - 1
        doe == yoe * 365 + yoe \div 4 - yoe \div 100 + doy
    IN  era * 146097 + doe - 719468
ParseDateTime(s) ==
    LET f == DateTimeFields(s)
    IN  [day |-> DaysFromCivil(f.year, f.month, f.date),
         msOfDay |-> ((f.hour * 60 + f.minute) * 60 + f.second) * 1000 + f.ms]

\* a result without the value of its timestamp
WithoutTimestamp(r) ==
    [r EXCEPT !.body = [k \in DOMAIN r.body \ {"timestamp"} |-> r.body[k]]]

(***************************************************************************)
(* The claims.                                                             *)
(***************************************************************************)

\* C1: an invocation whose method is not POST is answered 405 at once and
\* sends nothing to the dispatch endpoint, whatever the credential variables
\* hold; with no credential it is still 405 and not 500.
C1_NonPostRejected ==
    (pc # "idle" /\ event.httpMethod # "POST") =>
        /\ pc = "done"
        /\ Returned
        /\ Res.statusCode = 405
        /\ Has(Res.body, "error")
        /\ outbound = <<>>
        /\ response = <<>>

C1_Witness ==
    /\ pc = "done"
    /\ event.httpMethod = "GET"
    /\ ~CredentialConfigured(env)
    /\ Returned
    /\ Res.statusCode = 405

\* C2: a POST with no accepted credential variable holding a non-empty value
\* is answered 500 with a remediation hint and sends nothing.
C2_MissingCredential ==
    (pc # "idle" /\ event.httpMethod = "POST" /\ ~CredentialConfigured(env)) =>
        /\ pc = "done"
        /\ Returned
        /\ Res.statusCode = 500
        /\ Has(Res.body, "error")
        /\ Has(Res.body, "hint")
        /\ Res.body.hint.t = "string"
        /\ Res.body.hint.v # ""
        /\ outbound = <<>>
        /\ response = <<>>

C2_Witness ==
    /\ pc = "done"
    /\ event.httpMethod = "POST"
    /\ env.GITHUB_TOKEN = Str("")
    /\ env.GH_TOKEN = Undefined
    /\ env.GH_PAT = Str("")
    /\ Returned
    /\ Has(Res.body, "hint")

\* C3 as stated: an upstream answer of 202 or 204 to a POST with a credential
\* gives status 200, success = true and a timestamp that is a date-time.
C3_AcceptedOrNoContent ==
    (pc = "done" /\ Len(response) = 1 /\ response[1].status \in {202, 204}
       /\ error = <<>>) =>
        /\ Returned
        /\ Res.statusCode = 200
        /\ ReportsSuccess(Res)
        /\ Has(Res.body, "timestamp")
        /\ IsDateTime(Res.body.timestamp.v)

\* C3 amended: an upstream answer of 204 to a POST with a credential gives
\* status 200, success = true and a timestamp that is a valid date-time, which
\* reads back as the clock reading it was taken from.
C3_NoContentSucceeds ==
    (pc = "done" /\ Len(response) = 1 /\ response[1].status = 204) =>
        /\ event.httpMethod = "POST"
        /\ CredentialConfigured(env)
        /\ Returned
        /\ Res.statusCode = 200
        /\ ReportsSuccess(Res)
        /\ ~Has(Res.body, "error")
        /\ Has(Res.body, "timestamp")
        /\ Res.body.timestamp.t = "string"
        /\ IsDateTime(Res.body.timestamp.v)
        /\ Len(now) = 1
        /\ ParseDateTime(Res.body.timestamp.v) = now[1]

C3_Witness ==
    /\ pc = "done"
    /\ Len(response) = 1
    /\ response[1].status = 204
    /\ Returned
    /\ ReportsSuccess(Res)
    /\ Res.body.timestamp.v =
         <<"2", "0", "0", "0", "-", "0", "2", "-", "2", "9", "T", "2", "3", ":",
           "5", "9", ":", "5", "9", ".", "9", "9", "9", "Z">>

\* C4: when the upstream answers a POST with a credential with a status other
\* than 204 and the text of its body has been read, the result carries that
\* status unchanged, the text verbatim as details, an error field, and no
\* success.
C4_UpstreamErrorRelayed ==
    (pc = "done" /\ Len(response) = 1 /\ response[1].status # 204 /\ error = <<>>) =>
        /\ event.httpMethod = "POST"
        /\ CredentialConfigured(env)
        /\ Len(errorText) = 1
        /\ Returned
        /\ Res.statusCode = response[1].status
        /\ Has(Res.body, "error")
        /\ Has(Res.body, "details")
        /\ Res.body.details = Str(errorText[1])
        /\ ~Has(Res.body, "success")

C4_Witness ==
    /\ pc = "done"
    /\ Len(response) = 1
    /\ response[1].status = 422
    /\ errorText = <<"Validation Failed">>
    /\ Returned
    /\ Res.statusCode = 422
    /\ Res.body.details.v = "Validation Failed"

\* C5: the outbound call carries as bearer credential the first non-empty value
\* in the order GITHUB_TOKEN, GH_TOKEN, GH_PAT, an empty or unset earlier
\* variable does not keep a later non-empty one from being used, and the call
\* names the branch main.
C5_FirstNonEmptyWins ==
    /\ \A i \in 1..Len(outbound) :
          /\ CredentialConfigured(env)
          /\ outbound[i].headers.Authorization = "Bearer " \o FirstNonEmpty(env)
          /\ outbound[i].body.ref = Str("main")
    /\ (pc # "idle" /\ event.httpMethod = "POST" /\ CredentialConfigured(env)) =>
          Len(outbound) = 1

C5_Witness ==
    /\ pc = "awaitFetch"
    /\ env.GITHUB_TOKEN = Str("")
    /\ env.GH_TOKEN = Undefined
    /\ env.GH_PAT = Str("tok_GH_PAT")
    /\ Len(outbound) = 1
    /\ outbound[1].headers.Authorization = "Bearer tok_GH_PAT"

\* C6: when fetch() or response.text() rejects, the invocation still returns:
\* a 500 with an error field and no success; and no finished invocation is
\* without a result.
C6_FailureBecomesServerError ==
    /\ pc = "done" => Returned
    /\ (pc = "done" /\ Len(error) = 1) =>
          /\ Res.statusCode = 500
          /\ Has(Res.body, "error")
          /\ Res.body.error = error[1].message
          /\ ~Has(Res.body, "success")
    /\ Len(error) = 1 => pc = "done"

C6_Witness ==
    /\ pc = "done"
    /\ Len(error) = 1
    /\ Len(response) = 1
    /\ response[1].status = 422
    /\ errorText = <<>>
    /\ Returned
    /\ Res.statusCode = 500

\* C7: every result the handler returns has a body with a success or an error
\* field and carries Access-Control-Allow-Origin: *.
C7_EveryResultJsonAndCorsOpen ==
    Returned =>
        /\ Has(Res.body, "success") \/ Has(Res.body, "error")
        /\ CorsOpen(Res)

\* C8: two invocations with the same method, credential variables and upstream
\* outcome return the same result (the value of the timestamp apart) and make
\* the same outbound call, however many invocations came before either.
C8_SameInputsSameResult ==
    (pc = "done" /\ Len(earlier) = 1
       /\ earlier[1].event = event
       /\ earlier[1].response = response
       /\ earlier[1].errorText = errorText
       /\ earlier[1].error = error) =>
        /\ Len(earlier[1].result) = 1
        /\ Returned
        /\ WithoutTimestamp(earlier[1].result[1]) = WithoutTimestamp(Res)
        /\ earlier[1].outbound = outbound

C8_Witness ==
    /\ pc = "done"
    /\ Len(earlier) = 1
    /\ earlier[1].invocation + 1 < invocation
    /\ earlier[1].event = event
    /\ earlier[1].response = response
    /\ response = <<[status |-> 204]>>
    /\ earlier[1].result # result
    /\ WithoutTimestamp(earlier[1].result[1]) = WithoutTimestamp(Res)

\* C9: an invocation sends at most one request to the dispatch endpoint, and
\* exactly one if and only if its method is POST and a credential is
\* configured; an upstream error or a rejection is followed by no second one.
C9_AtMostOneOutboundCall ==
    /\ Len(outbound) <= 1
    /\ pc # "idle" =>
          (Len(outbound) = 1 <=> (event.httpMethod = "POST" /\ CredentialConfigured(env)))

C9_Witness ==
    /\ pc = "done"
    /\ Len(error) = 1
    /\ Len(response) = 1
    /\ response[1].status = 302
    /\ Len(outbound) = 1

\* C10 as stated: success = true exactly when the status code is 200, and a
\* result with an error field has a status code of 400 or above.
C10_StatusAgreesWithBody ==
    Returned =>
        /\ ReportsSuccess(Res) <=> Res.statusCode = 200
        /\ Has(Res.body, "error") => Res.statusCode >= 400

\* C10 amended: success = true only with status code 200, and only for an
\* upstream 204; a result with an error field has a status code of 400 or
\* above unless it relays an upstream status below 400 other than 204, whose
\* code it then carries unchanged; no result carries both fields.
C10_StatusAgreesUnlessRelayed ==
    Returned =>
        /\ ReportsSuccess(Res) =>
              /\ Res.statusCode = 200
              /\ response = <<[status |-> 204]>>
        /\ Has(Res.body, "success") => ReportsSuccess(Res) /\ ~Has(Res.body, "error")
        /\ Has(Res.body, "success") \/ Has(Res.body, "error")
        /\ (Has(Res.body, "error") /\ Res.statusCode < 400) =>
              /\ Len(response) = 1
              /\ response[1].status # 204
              /\ Res.statusCode = response[1].status
              /\ Len(errorText) = 1

C10_Witness ==
    /\ pc = "done"
    /\ response = <<[status |-> 200]>>
    /\ Returned
    /\ Res.statusCode = 200
    /\ Has(Res.body, "error")
    /\ ~Has(Res.body, "success")

====
